---------------------------- MODULE Spec2Model ----------------------------
(***************************************************************************)
(* A model of src/tang/gowin_pll_parser.py: the extraction pass that builds *)
(* the parameter mapping from the defparam lines of a netlist, followed by  *)
(* the calculation pass that reports the feedback frequency and, for each   *)
(* enabled output channel, its frequency and phase.                         *)
(*                                                                          *)
(* Text is modelled character by character: a string is a sequence of       *)
(* one-character strings.  The code point U+00B2 (SUPERSCRIPT TWO), for      *)
(* which str.isdigit() is true while int() raises ValueError, is written    *)
(* "^2".  Numbers of the calculation pass are exact rationals <<num, den>>  *)
(* in lowest terms: the value of which the program prints the nearest       *)
(* double.                                                                  *)
(***************************************************************************)
EXTENDS Integers, Sequences, FiniteSets, TLC

VARIABLES file, pos, params, pc, out, exc, code,
          fclkin, fbdiv, idiv, mdiv, pf, i, odiv, phase

vars == <<file, pos, params, pc, out, exc, code,
          fclkin, fbdiv, idiv, mdiv, pf, i, odiv, phase>>

(***************************************************************************)
(* Characters and the str methods the extraction pass uses.                 *)
(***************************************************************************)
Whitespace == {" ", "\t", "\n", "\r"}

UpperCase == <<"A","B","C","D","E","F","G","H","I","J","K","L","M",
               "N","O","P","Q","R","S","T","U","V","W","X","Y","Z">>

LowerCase == <<"a","b","c","d","e","f","g","h","i","j","k","l","m",
               "n","o","p","q","r","s","t","u","v","w","x","y","z">>

DecimalDigits == <<"0","1","2","3","4","5","6","7","8","9">>

\* Characters for which str.isdigit() holds: the decimal digits and the
\* superscript digit, which is a digit but not a decimal.
DigitChars == {DecimalDigits[k] : k \in 1..10} \cup {"^2"}

\* str.lower() of one character.
lowerChar(c) ==
    IF \E k \in 1..26 : UpperCase[k] = c
    THEN LowerCase[CHOOSE k \in 1..26 : UpperCase[k] = c]
    ELSE c

\* str.lower()
lower(s) == [k \in 1..Len(s) |-> lowerChar(s[k])]

\* str.lstrip(chars)
RECURSIVE lstrip(_, _)
lstrip(s, chars) ==
    IF s # <<>> /\ Head(s) \in chars THEN lstrip(Tail(s), chars) ELSE s

\* str.rstrip(chars)
RECURSIVE rstrip(_, _)
rstrip(s, chars) ==
    IF s # <<>> /\ s[Len(s)] \in chars
    THEN rstrip(SubSeq(s, 1, Len(s) - 1), chars)
    ELSE s

\* str.strip(chars); str.strip() is strip(s, Whitespace)
strip(s, chars) == lstrip(rstrip(s, chars), chars)

\* The length of the longest prefix of s without a character of chars.
RECURSIVE wordLen(_, _)
wordLen(s, chars) ==
    IF s = <<>> \/ Head(s) \in chars THEN 0 ELSE 1 + wordLen(Tail(s), chars)

\* str.split(): the maximal runs of non-whitespace characters, in order.
RECURSIVE split(_)
split(s) ==
    LET t == lstrip(s, Whitespace)
        n == wordLen(t, Whitespace)
    IN  IF t = <<>> THEN <<>>
        ELSE <<SubSeq(t, 1, n)>> \o split(SubSeq(t, n + 1, Len(t)))

\* str.split(sep)[-1]: what follows the last sep, the whole of s without one.
RECURSIVE lastSegment(_, _)
lastSegment(s, sep) ==
    LET n == wordLen(s, {sep})
    IN  IF n = Len(s) THEN s ELSE lastSegment(SubSeq(s, n + 2, Len(s)), sep)

\* str.isdigit(): not empty, and every character a digit.
isdigit(s) == s # <<>> /\ \A k \in 1..Len(s) : s[k] \in DigitChars

\* Whether int(s) raises ValueError, for an s with isdigit(s): int() parses
\* decimal digits only.
intRaises(s) == \E k \in 1..Len(s) : s[k] = "^2"

digitValue(c) == (CHOOSE k \in 1..10 : DecimalDigits[k] = c) - 1

\* int(s) of a string of decimal digits.
RECURSIVE int(_)
int(s) ==
    IF s = <<>> THEN 0
    ELSE 10 * int(SubSeq(s, 1, Len(s) - 1)) + digitValue(s[Len(s)])

\* The characters of s as one string: the key of the mapping.
RECURSIVE text(_)
text(s) == IF s = <<>> THEN "" ELSE Head(s) \o text(Tail(s))

kw_defparam == <<"d","e","f","p","a","r","a","m">>
kw_false == <<"f","a","l","s","e">>
kw_true == <<"t","r","u","e">>

(***************************************************************************)
(* Values of the mapping.  Python's bool is a subclass of int: False and    *)
(* True take part in arithmetic as 0 and 1, so a value is its type and its  *)
(* number.  NoValue is None.                                                *)
(***************************************************************************)
BoolValue(b) == [type |-> "bool", n |-> IF b THEN 1 ELSE 0]
IntValue(n) == [type |-> "int", n |-> n]
NoValue == [type |-> "None", n |-> 0]
RaisedValueError == [type |-> "ValueError", n |-> 0]

\* Lines 13-16: the value token, its quotes stripped, as False, True, an int
\* or None; int() may raise.
coerce(value) ==
    IF lower(value) = kw_false THEN BoolValue(FALSE)
    ELSE IF lower(value) = kw_true THEN BoolValue(TRUE)
    ELSE IF isdigit(value)
         THEN IF intRaises(value) THEN RaisedValueError ELSE IntValue(int(value))
         ELSE NoValue

\* Line 8
lineParts(line) == split(rstrip(strip(line, Whitespace), {";"}))

\* Line 9 without the test of token[2].
lineMatches_anySeparator(parts) ==
    /\ Len(parts) = 4
    /\ lower(parts[1]) = kw_defparam

\* Line 9
lineMatches(parts) ==
    /\ Len(parts) = 4
    /\ lower(parts[1]) = kw_defparam
    /\ parts[3] = <<"=">>

\* Line 10
paramName(parts) == text(lower(lastSegment(parts[2], ".")))

\* Line 11
paramValue(parts) == strip(parts[4], {"\""})

\* Line 18 without its test: None is stored like any value.
isStored_always(value) == TRUE

\* Line 18: value != None
isStored(value) == value # NoValue

\* Line 19 as params.setdefault(name, value): the first value is kept.
setItem_keepFirst(d, name, value) ==
    [k \in DOMAIN d \cup {name} |-> IF k \in DOMAIN d THEN d[k] ELSE value]

\* Line 19: params[name] = value
setItem(d, name, value) ==
    [k \in DOMAIN d \cup {name} |-> IF k = name THEN value ELSE d[k]]

(***************************************************************************)
(* Numbers of the calculation pass: non-negative rationals in lowest terms. *)
(***************************************************************************)
RECURSIVE gcd(_, _)
gcd(a, b) == IF b = 0 THEN a ELSE gcd(b, a % b)

ratio(n, d) == LET g == gcd(n, d) IN <<n \div g, d \div g>>

\* The number a stored value stands for in arithmetic.
number(v) == <<v.n, 1>>

add(a, b) == ratio(a[1] * b[2] + b[1] * a[2], a[2] * b[2])
mul(a, b) == ratio(a[1] * b[1], a[2] * b[2])
\* a / b for b # 0; Python raises ZeroDivisionError for b = 0.
div(a, b) == ratio(a[1] * b[2], a[2] * b[1])
isZero(a) == a[1] = 0

Zero == <<0, 1>>
Eight == <<8, 1>>
FullTurn == <<360, 1>>

\* Line 42: range(8)
NumChannels == 8

\* "clkout"+str(i)+"_en" and the other keys of channel ch
enKey(ch) == "clkout" \o ToString(ch) \o "_en"
odivKey(ch) == "odiv" \o ToString(ch) \o "_sel"
odivFracKey(ch) == "odiv" \o ToString(ch) \o "_frac_sel"
coarseKey(ch) == "clkout" \o ToString(ch) \o "_pe_coarse"
fineKey(ch) == "clkout" \o ToString(ch) \o "_pe_fine"

\* key in params
has(d, key) == key \in DOMAIN d

\* The check of line 21 with the key as the netlist spells it.
clockMissing_upperCaseKey(d) == ~ has(d, "FCLKIN")

\* Line 21: not "fclkin" in params
clockMissing(d) == ~ has(d, "fclkin")

\* Lines 27-34: params[key] if the key is present, else 1
selOrOne(d, key) == IF has(d, key) THEN number(d[key]) ELSE <<1, 1>>

\* Lines 33-36: mdiv, with mdiv_frac_sel/8 added when that key is present
mdivOf(d) ==
    IF has(d, "mdiv_frac_sel")
    THEN add(selOrOne(d, "mdiv_sel"), div(number(d["mdiv_frac_sel"]), Eight))
    ELSE selOrOne(d, "mdiv_sel")

\* Line 39 grouped as fclkin*fbdiv/(idiv*mdiv).
feedbackFreq_divideByProduct(f, fb, id, md) == div(mul(f, fb), mul(id, md))

\* Line 39: fclkin*fbdiv/idiv*mdiv, for idiv # 0
feedbackFreq(f, fb, id, md) == mul(div(mul(f, fb), id), md)

\* Line 43 without the test of the value.
channelEnabled_presentOnly(d, ch) == has(d, enKey(ch))

\* Line 43: the key is present and its value is truthy
channelEnabled(d, ch) == has(d, enKey(ch)) /\ d[enKey(ch)].n # 0

\* params[key]: the number found, or found = FALSE for a KeyError.
getItem(d, key) ==
    IF has(d, key) THEN [found |-> TRUE, v |-> number(d[key])]
    ELSE [found |-> FALSE, v |-> Zero]

\* Line 44 as params.get("odiv"+str(i)+"_sel", 1).
odivSel_defaultOne(d, ch) ==
    [found |-> TRUE,
     v |-> IF has(d, odivKey(ch)) THEN number(d[odivKey(ch)]) ELSE <<1, 1>>]

\* Line 44: params["odiv"+str(i)+"_sel"]
odivSel(d, ch) == getItem(d, odivKey(ch))

\* Lines 45-46: odiv, with odiv{i}_frac_sel/8 added when that key is present
odivOf(d, ch, sel) ==
    IF has(d, odivFracKey(ch))
    THEN add(sel, div(number(d[odivFracKey(ch)]), Eight))
    ELSE sel

\* Line 49: pf/odiv, for odiv # 0
channelFreq(p, od) == div(p, od)

\* Lines 51-52: a KeyError of the phase lookups
phaseLookupFails(d, ch) == ~ has(d, coarseKey(ch)) \/ ~ has(d, fineKey(ch))

\* Line 53 dividing by odiv{i}_sel alone, without its fraction.
channelPhase_selectorOnly(d, ch, od) ==
    div(mul(FullTurn,
            add(number(d[coarseKey(ch)]), div(number(d[fineKey(ch)]), Eight))),
        number(d[odivKey(ch)]))

\* Lines 51-53: 360 * (coarse + fine/8) / odiv, for odiv # 0
channelPhase(d, ch, od) ==
    div(mul(FullTurn,
            add(number(d[coarseKey(ch)]), div(number(d[fineKey(ch)]), Eight))),
        od)

\* A line of the report: what print() wrote.  ch is the channel of a line of
\* the per-channel report and -1 for the others.
Report(kind, ch, val) == [kind |-> kind, ch |-> ch, val |-> val]

(***************************************************************************)
(* The steps of the program.  pc is the place of the run; an uncaught       *)
(* exception ends the run with exit status 1 at the line that raised it,    *)
(* sys.exit(-1) ends it with SystemExit, the end of the script with 0.      *)
(***************************************************************************)
Raise(e, line) ==
    /\ pc' = "exited"
    /\ exc' = [type |-> e, line |-> line]
    /\ code' = 1

NoException == [type |-> "none", line |-> 0]

calcVars == <<fclkin, fbdiv, idiv, mdiv, pf, i, odiv, phase>>

\* Lines 7-19: one iteration of the loop over the lines of the file.
ReadLine ==
    /\ pc = "read"
    /\ pos <= Len(file)
    /\ LET parts == lineParts(file[pos])
       IN  IF lineMatches(parts)
           THEN LET name == paramName(parts)
                    value == coerce(paramValue(parts))
                IN  IF value = RaisedValueError
                    THEN /\ Raise("ValueError", 15)
                         /\ UNCHANGED <<params, pos>>
                    ELSE /\ params' = IF isStored(value)
                                      THEN setItem(params, name, value)
                                      ELSE params
                         /\ pos' = pos + 1
                         /\ UNCHANGED <<pc, exc, code>>
           ELSE /\ pos' = pos + 1
                /\ UNCHANGED <<params, pc, exc, code>>
    /\ UNCHANGED <<file, out, calcVars>>

\* Line 7: the file is exhausted.
EndOfFile ==
    /\ pc = "read"
    /\ pos > Len(file)
    /\ pc' = "check"
    /\ UNCHANGED <<file, pos, params, out, exc, code, calcVars>>

\* Lines 21-23
CheckClock ==
    /\ pc = "check"
    /\ IF clockMissing(params)
       THEN /\ out' = Append(out, Report("No input clock found!", -1, Zero))
            /\ pc' = "exited"
            /\ exc' = [type |-> "SystemExit", line |-> 23]
            /\ code' = -1
       ELSE /\ pc' = "dividers"
            /\ UNCHANGED <<out, exc, code>>
    /\ UNCHANGED <<file, pos, params, calcVars>>

\* Lines 25-38
Dividers ==
    /\ pc = "dividers"
    /\ fclkin' = number(params["fclkin"])
    /\ fbdiv' = selOrOne(params, "fbdiv_sel")
    /\ idiv' = selOrOne(params, "idiv_sel")
    /\ mdiv' = mdivOf(params)
    /\ out' = Append(out, Report("Input clock:", -1, fclkin'))
    /\ pc' = "pf"
    /\ UNCHANGED <<file, pos, params, exc, code, pf, i, odiv, phase>>

\* Lines 39-40
FeedbackFreq ==
    /\ pc = "pf"
    /\ IF isZero(idiv)
       THEN /\ Raise("ZeroDivisionError", 39)
            /\ UNCHANGED <<pf, out>>
       ELSE /\ pf' = feedbackFreq(fclkin, fbdiv, idiv, mdiv)
            /\ out' = Append(out, Report("pf:", -1, pf'))
            /\ pc' = "loop"
            /\ UNCHANGED <<exc, code>>
    /\ UNCHANGED <<file, pos, params, fclkin, fbdiv, idiv, mdiv, i, odiv, phase>>

\* Lines 42-43: the next channel, skipped unless it is enabled; after the last
\* one the script ends.
NextChannel ==
    /\ pc = "loop"
    /\ IF i = NumChannels
       THEN /\ pc' = "exited"
            /\ code' = 0
            /\ UNCHANGED i
       ELSE IF channelEnabled(params, i)
            THEN /\ pc' = "odiv"
                 /\ UNCHANGED <<i, code>>
            ELSE /\ i' = i + 1
                 /\ UNCHANGED <<pc, code>>
    /\ UNCHANGED <<file, pos, params, out, exc, fclkin, fbdiv, idiv, mdiv, pf,
                   odiv, phase>>

\* Lines 44-46
ChannelDivider ==
    /\ pc = "odiv"
    /\ LET sel == odivSel(params, i)
       IN  IF ~ sel.found
           THEN /\ Raise("KeyError", 44)
                /\ UNCHANGED odiv
           ELSE /\ odiv' = odivOf(params, i, sel.v)
                /\ pc' = "freq"
                /\ UNCHANGED <<exc, code>>
    /\ UNCHANGED <<file, pos, params, out, fclkin, fbdiv, idiv, mdiv, pf, i,
                   phase>>

\* Lines 48-49
ChannelFreq ==
    /\ pc = "freq"
    /\ IF isZero(odiv)
       THEN /\ out' = Append(out, Report("Output", i, Zero))
            /\ Raise("ZeroDivisionError", 49)
       ELSE /\ out' = out \o <<Report("Output", i, Zero),
                               Report("Freq:", i, channelFreq(pf, odiv))>>
            /\ pc' = "phase"
            /\ UNCHANGED <<exc, code>>
    /\ UNCHANGED <<file, pos, params, calcVars>>

\* Lines 51-54
ChannelPhase ==
    /\ pc = "phase"
    /\ IF phaseLookupFails(params, i)
       THEN /\ Raise("KeyError", IF has(params, coarseKey(i)) THEN 52 ELSE 51)
            /\ UNCHANGED <<phase, out, i>>
       ELSE /\ phase' = channelPhase(params, i, odiv)
            /\ out' = Append(out, Report("Phase:", i, phase'))
            /\ i' = i + 1
            /\ pc' = "loop"
            /\ UNCHANGED <<exc, code>>
    /\ UNCHANGED <<file, pos, params, fclkin, fbdiv, idiv, mdiv, pf, odiv>>

Next ==
    \/ ReadLine
    \/ EndOfFile
    \/ CheckClock
    \/ Dividers
    \/ FeedbackFreq
    \/ NextChannel
    \/ ChannelDivider
    \/ ChannelFreq
    \/ ChannelPhase

(***************************************************************************)
(* The input files.  A file is the sequence of its lines, each with its     *)
(* line end.  Three families: short files of any lines of LineSet, the      *)
(* extraction pass's cases; files that set the feedback dividers in every   *)
(* combination, followed by one complete channel; files that set two        *)
(* channels, the higher one first, in the combinations of their keys.       *)
(***************************************************************************)
MaxLines == 2

n_FCLKIN == <<"p","l","l",".","F","C","L","K","I","N">>
n_FBDIV_SEL == <<"p","l","l",".","F","B","D","I","V","_","S","E","L">>
n_IDIV_SEL == <<"p","l","l",".","I","D","I","V","_","S","E","L">>
n_MDIV_SEL == <<"p","l","l",".","M","D","I","V","_","S","E","L">>
n_MDIV_FRAC_SEL ==
    <<"p","l","l",".","M","D","I","V","_","F","R","A","C","_","S","E","L">>
n_CLKOUT == <<"p","l","l",".","C","L","K","O","U","T">>
n_ODIV == <<"p","l","l",".","O","D","I","V">>
s_EN == <<"_","E","N">>
s_SEL == <<"_","S","E","L">>
s_FRAC_SEL == <<"_","F","R","A","C","_","S","E","L">>
s_PE_COARSE == <<"_","P","E","_","C","O","A","R","S","E">>
s_PE_FINE == <<"_","P","E","_","F","I","N","E">>
v_TRUE == <<"\"","T","R","U","E","\"">>
v_FALSE == <<"\"","f","a","l","s","e","\"">>

\* a quoted integer, a dotted name in upper case
line_clock ==
    <<"d","e","f","p","a","r","a","m"," ","t","o","p",".","p","l","l",".",
      "F","C","L","K","I","N"," ","="," ","\"","5","0","\"",";","\n">>

\* the same final segment at another path, no quotes, no semicolon
line_clock_again ==
    <<"D","e","f","P","a","r","a","m"," ","o","t","h","e","r",".","i","n",
      "s","t",".","f","c","l","k","i","n"," ","="," ","2","5","\n">>

\* a value that is neither a boolean nor digits
line_clock_float ==
    <<"d","e","f","p","a","r","a","m"," ","t","o","p",".","p","l","l",".",
      "F","C","L","K","I","N"," ","="," ","\"","3",".","5","\"",";","\n">>

\* a negative number
line_clock_negative ==
    <<"d","e","f","p","a","r","a","m"," ","t","o","p",".","p","l","l",".",
      "F","C","L","K","I","N"," ","="," ","-","5",";","\n">>

\* an empty value
line_clock_empty ==
    <<"d","e","f","p","a","r","a","m"," ","t","o","p",".","p","l","l",".",
      "F","C","L","K","I","N"," ","="," ","\"","\"",";","\n">>

\* a digit that is no decimal
line_clock_superscript ==
    <<"d","e","f","p","a","r","a","m"," ","t","o","p",".","p","l","l",".",
      "F","C","L","K","I","N"," ","="," ","^2",";","\n">>

\* a blank line
line_blank ==
    <<"\n">>

\* a comment: five tokens
line_comment ==
    <<"/","/"," ","d","e","f","p","a","r","a","m"," ","t","o","p",".","p",
      "l","l",".","F","C","L","K","I","N"," ","="," ","2","7",";","\n">>

\* a statement split over two lines: its head
line_split_head ==
    <<"d","e","f","p","a","r","a","m"," ","t","o","p",".","p","l","l",".",
      "F","C","L","K","I","N"," ","=","\n">>

\* a statement split over two lines: its tail
line_split_tail ==
    <<" "," "," "," ","\"","2","7","\"",";","\n">>

\* four tokens, token[2] not =
line_wrong_equals ==
    <<"d","e","f","p","a","r","a","m"," ","t","o","p",".","p","l","l",".",
      "F","C","L","K","I","N"," ","=","="," ","2","7",";","\n">>

\* four tokens, token[0] not defparam
line_wrong_keyword ==
    <<"p","a","r","a","m","e","t","e","r"," ","t","o","p",".","p","l","l",
      ".","F","C","L","K","I","N"," ","="," ","2","7",";","\n">>

\* a tab, runs of blanks, several semicolons
line_idiv_zero ==
    <<"\t","d","e","f","p","a","r","a","m"," "," ","p","l","l",".","I","D",
      "I","V","_","S","E","L"," ","="," ","0"," ",";",";"," ","\n">>

\* a boolean in mixed case
line_enable ==
    <<"d","e","f","p","a","r","a","m"," ","p","l","l",".","C","L","K","O",
      "U","T","0","_","E","N"," ","="," ","\"","T","r","u","e","\"",";",
      "\n">>

\* leading zeros
line_odiv ==
    <<"d","e","f","p","a","r","a","m"," ","p","l","l",".","O","D","I","V",
      "0","_","S","E","L"," ","="," ","0","0","8",";","\n">>

LineSet ==
    {line_clock, line_clock_again, line_clock_float, line_clock_negative,
     line_clock_empty, line_clock_superscript, line_blank, line_comment,
     line_split_head, line_split_tail, line_wrong_equals, line_wrong_keyword,
     line_idiv_zero, line_enable, line_odiv}

\* The decimal digits of n, the inverse of int().
RECURSIVE decimal(_)
decimal(n) ==
    IF n < 10 THEN <<DecimalDigits[n + 1]>>
    ELSE decimal(n \div 10) \o <<DecimalDigits[(n % 10) + 1]>>

\* The line "defparam <name> = <value>;"
statement(name, value) ==
    kw_defparam \o <<" ">> \o name \o <<" ", "=", " ">> \o value \o <<";", "\n">>

\* A file of the one line that sets name to one of the numbers, or of none.
optional(name, numbers) ==
    {<<>>} \cup {<<statement(name, decimal(n))>> : n \in numbers}

channelName(prefix, ch, suffix) == prefix \o decimal(ch) \o suffix

FilesShort == UNION {[1..n -> LineSet] : n \in 0..MaxLines}

\* Channel 0 of the spec's scenario: enabled, odiv 4, coarse 2, fine 0.
ChannelZero ==
    << statement(channelName(n_CLKOUT, 0, s_EN), v_TRUE),
       statement(channelName(n_ODIV, 0, s_SEL), decimal(4)),
       statement(channelName(n_CLKOUT, 0, s_PE_COARSE), decimal(2)),
       statement(channelName(n_CLKOUT, 0, s_PE_FINE), decimal(0)) >>

FilesDividers ==
    { a \o b \o c \o d \o e \o ChannelZero :
        a \in optional(n_FCLKIN, {50}),
        b \in optional(n_FBDIV_SEL, {2}),
        c \in optional(n_IDIV_SEL, {0, 1, 3}),
        d \in optional(n_MDIV_SEL, {18}),
        e \in optional(n_MDIV_FRAC_SEL, {4}) }

\* The enable lines of a channel: none, "TRUE", "false", 0.
enableOptions(ch) ==
    optional(channelName(n_CLKOUT, ch, s_EN), {0})
        \cup {<<statement(channelName(n_CLKOUT, ch, s_EN), v)>> :
                 v \in {v_TRUE, v_FALSE}}

FilesChannels ==
    { <<line_clock>> \o a \o b \o c \o d \o e \o f \o g \o h :
        a \in optional(channelName(n_CLKOUT, 4, s_EN), {1}),
        b \in optional(channelName(n_ODIV, 4, s_SEL), {2}),
        c \in {<<>>, << statement(channelName(n_CLKOUT, 4, s_PE_COARSE), decimal(1)),
                        statement(channelName(n_CLKOUT, 4, s_PE_FINE), decimal(0)) >>},
        d \in enableOptions(3),
        e \in optional(channelName(n_ODIV, 3, s_SEL), {0, 4}),
        f \in optional(channelName(n_ODIV, 3, s_FRAC_SEL), {4}),
        g \in optional(channelName(n_CLKOUT, 3, s_PE_COARSE), {2}),
        h \in optional(channelName(n_CLKOUT, 3, s_PE_FINE), {4}) }

Files == FilesShort \cup FilesDividers \cup FilesChannels

\* Line 5: params = { }
EmptyMapping == [k \in {} |-> NoValue]

Init ==
    /\ file \in Files
    /\ pos = 1
    /\ params = EmptyMapping
    /\ pc = "read"
    /\ out = <<>>
    /\ exc = NoException
    /\ code = 0
    /\ fclkin = Zero
    /\ fbdiv = Zero
    /\ idiv = Zero
    /\ mdiv = Zero
    /\ pf = Zero
    /\ i = 0
    /\ odiv = Zero
    /\ phase = Zero

Spec == Init /\ [][Next]_vars

(***************************************************************************)
(* The claims.                                                              *)
(***************************************************************************)

\* C1: once the extraction pass has ended, a mapping without the key fclkin
\* makes the run print the missing-clock message and nothing else and exit
\* with a non-zero status; with the key present the run never takes that exit
\* and never prints that message.
C1_MissingClockIsFatal ==
    (pc \notin {"read", "check"} /\ exc.type # "ValueError") =>
        IF "fclkin" \notin DOMAIN params
        THEN /\ pc = "exited"
             /\ exc.type = "SystemExit"
             /\ code # 0
             /\ Len(out) = 1
             /\ out[1].kind = "No input clock found!"
        ELSE /\ exc.type # "SystemExit"
             /\ \A k \in 1..Len(out) : out[k].kind # "No input clock found!"

\* A file of lines none of which is a defparam statement has ended in the
\* fatal exit, with an empty mapping.
C1_Witness ==
    /\ file = <<line_blank, line_comment>>
    /\ params = EmptyMapping
    /\ pc = "exited"
    /\ exc.type = "SystemExit"
    /\ code = -1

\* C5: every value of the mapping is a boolean or an integer, and comes from
\* a processed defparam line of that name whose value token, its quotes
\* stripped, is true or false in some letter case (and the value is that
\* boolean) or is made of decimal digits only (and the value is that number):
\* no other token inserts a key, and no string is stored.
C5_ValuesAreTyped ==
    \A k \in DOMAIN params :
        /\ params[k].type \in {"bool", "int"}
        /\ \E j \in 1..(pos - 1) :
             LET parts == split(rstrip(strip(file[j], Whitespace), {";"}))
             IN  /\ Len(parts) = 4
                 /\ text(lower(lastSegment(parts[2], "."))) = k
                 /\ LET token == strip(parts[4], {"\""})
                    IN  \/ lower(token) = kw_true /\ params[k] = BoolValue(TRUE)
                        \/ lower(token) = kw_false /\ params[k] = BoolValue(FALSE)
                        \/ /\ token # <<>>
                           /\ \A c \in 1..Len(token) :
                                \E v \in 1..10 : DecimalDigits[v] = token[c]
                           /\ params[k].type = "int"
                           /\ decimal(params[k].n) = lstrip(token, {"0"})
                              \/ (params[k].n = 0 /\ lstrip(token, {"0"}) = <<>>)

\* The file "3.5" for fclkin, then 008 for odiv0_sel, is read: fclkin is
\* not inserted, odiv0_sel is the integer 8.
C5_Witness ==
    /\ file = <<line_clock_float, line_odiv>>
    /\ pos = 3
    /\ DOMAIN params = {"odiv0_sel"}
    /\ params["odiv0_sel"] = IntValue(8)

\* C6: after any number of lines are processed, a key is in the mapping iff
\* some processed line is a defparam statement of that normalized name whose
\* value coerces, and its value is then the coerced value of the last such
\* line: a later valid line of the same final segment overwrites, a later
\* line whose value fails to coerce changes nothing.
C6_LastValidLineWins ==
    \A statements \in
        {[j \in 1..(pos - 1) |->
            LET parts == split(rstrip(strip(file[j], Whitespace), {";"}))
            IN  IF /\ Len(parts) = 4
                   /\ lower(parts[1]) = kw_defparam
                   /\ parts[3] = <<"=">>
                THEN [name |-> text(lower(lastSegment(parts[2], "."))),
                      value |-> coerce(strip(parts[4], {"\""}))]
                ELSE [name |-> "", value |-> NoValue]]} :
        LET valid(k) ==
                {j \in 1..(pos - 1) :
                    /\ statements[j].name = k
                    /\ statements[j].value.type \in {"bool", "int"}}
            last(k) == CHOOSE j \in valid(k) : \A h \in valid(k) : h <= j
            names == DOMAIN params \cup
                     {statements[j].name : j \in 1..(pos - 1)}
        IN  \A k \in names :
                IF valid(k) = {} THEN k \notin DOMAIN params
                ELSE /\ k \in DOMAIN params
                     /\ params[k] = statements[last(k)].value

\* Two valid lines for fclkin, at different paths and in different letter
\* case, were read: the mapping holds the value of the second.
C6_Witness ==
    /\ file = <<line_clock, line_clock_again>>
    /\ pc = "check"
    /\ params["fclkin"] = IntValue(25)

\* C7: a line that does not split, once stripped of surrounding whitespace
\* and of trailing semicolons, into exactly four tokens with token[0] equal
\* to defparam in some letter case and token[2] equal to "=" leaves the
\* mapping unchanged and does not end the run: the loop goes on to the next
\* line.
C7_OtherLinesAreIgnored ==
    [][ ( /\ pc = "read"
          /\ pos <= Len(file)
          /\ LET parts == split(rstrip(strip(file[pos], Whitespace), {";"}))
             IN  ~ ( /\ Len(parts) = 4
                     /\ lower(parts[1]) = kw_defparam
                     /\ parts[3] = <<"=">> ) )
        => ( /\ params' = params
             /\ pos' = pos + 1
             /\ pc' = "read"
             /\ exc' = exc
             /\ out' = out ) ]_vars

\* A comment of five tokens was skipped and the statement after it was
\* stored.
C7_Witness ==
    /\ file = <<line_comment, line_clock>>
    /\ pos = 3
    /\ params["fclkin"] = IntValue(50)

\* C8: the feedback frequency printed is pf, and pf is
\* ((fclkin * fbdiv) / idiv) * mdiv with fbdiv, idiv and mdiv the values of
\* fbdiv_sel, idiv_sel and mdiv_sel when present and 1 when absent, each on
\* its own, and mdiv_frac_sel/8 added to mdiv exactly when mdiv_frac_sel is
\* present.  With pf = p/q, in integers:
\* p * idiv * 8 = q * fclkin * fbdiv * (8 * mdiv_sel + mdiv_frac_sel).
C8_FeedbackFrequency ==
    LET sel(key) == IF key \in DOMAIN params THEN params[key].n ELSE 1
        frac == IF "mdiv_frac_sel" \in DOMAIN params
                THEN params["mdiv_frac_sel"].n ELSE 0
    IN  /\ pc \in {"loop", "odiv", "freq", "phase"} =>
              Len(out) >= 2 /\ out[2].kind = "pf:"
        /\ \A k \in 1..Len(out) :
              out[k].kind = "pf:" =>
                  /\ out[k].val = pf
                  /\ sel("idiv_sel") # 0
                  /\ pf[1] * sel("idiv_sel") * 8 =
                         pf[2] * params["fclkin"].n * sel("fbdiv_sel")
                               * (8 * sel("mdiv_sel") + frac)

\* fclkin 50, idiv_sel 3 and mdiv_frac_sel 4 without fbdiv_sel and mdiv_sel:
\* pf = 50 * 1 / 3 * 1.5 = 25.
C8_Witness ==
    /\ pc = "loop"
    /\ DOMAIN params \cap {"fbdiv_sel", "idiv_sel", "mdiv_sel", "mdiv_frac_sel"}
           = {"idiv_sel", "mdiv_frac_sel"}
    /\ params["idiv_sel"].n = 3
    /\ pf = <<25, 1>>
    /\ out[2] = Report("pf:", -1, <<25, 1>>)

\* C9: a frequency line of channel i is pf / odiv and its phase line is
\* 360 * (clkout{i}_pe_coarse + clkout{i}_pe_fine/8) / odiv, both with
\* odiv = odiv{i}_sel, plus odiv{i}_frac_sel/8 when that key is present; the
\* scenario fclkin 50, fbdiv_sel 2, idiv_sel 1, mdiv_sel 18, channel 0
\* enabled with odiv0_sel 4, coarse 2, fine 0 reports pf 1800, frequency 450
\* and phase 180.  In integers, with eighths = 8 * odiv:
\* freq * q * eighths = 8 * p and phase * eighths = 360 * (8 * coarse + fine).
C9_ChannelFrequencyAndPhase ==
    LET key(a, ch, b) == a \o ToString(ch) \o b
        eighths(ch) ==
            8 * params[key("odiv", ch, "_sel")].n
              + IF key("odiv", ch, "_frac_sel") \in DOMAIN params
                THEN params[key("odiv", ch, "_frac_sel")].n ELSE 0
    IN  /\ \A k \in 1..Len(out) :
              out[k].kind = "Freq:" =>
                  out[k].val[1] * pf[2] * eighths(out[k].ch)
                      = out[k].val[2] * pf[1] * 8
        /\ \A k \in 1..Len(out) :
              out[k].kind = "Phase:" =>
                  out[k].val[1] * eighths(out[k].ch)
                      = out[k].val[2] * 360
                          * ( 8 * params[key("clkout", out[k].ch, "_pe_coarse")].n
                                + params[key("clkout", out[k].ch, "_pe_fine")].n )
        /\ ( /\ pc = "exited"
             /\ exc.type = "none"
             /\ params = ( "fclkin" :> IntValue(50) @@ "fbdiv_sel" :> IntValue(2)
                           @@ "idiv_sel" :> IntValue(1) @@ "mdiv_sel" :> IntValue(18)
                           @@ "clkout0_en" :> BoolValue(TRUE)
                           @@ "odiv0_sel" :> IntValue(4)
                           @@ "clkout0_pe_coarse" :> IntValue(2)
                           @@ "clkout0_pe_fine" :> IntValue(0) ) )
           => out = << Report("Input clock:", -1, <<50, 1>>),
                       Report("pf:", -1, <<1800, 1>>),
                       Report("Output", 0, Zero),
                       Report("Freq:", 0, <<450, 1>>),
                       Report("Phase:", 0, <<180, 1>>) >>

\* Channel 3 with odiv3_sel 4, odiv3_frac_sel 4, coarse 2 and fine 4 under
\* pf 50: frequency 50 / 4.5 = 100/9, phase 360 * 2.5 / 4.5 = 200.
C9_Witness ==
    /\ pc = "exited"
    /\ exc.type = "none"
    /\ \E k \in 1..Len(out) : out[k] = Report("Freq:", 3, <<100, 9>>)
    /\ \E k \in 1..Len(out) : out[k] = Report("Phase:", 3, <<200, 1>>)

\* C3: while an enabled channel has no odiv{i}_sel in the mapping, no report
\* line of that channel or of a later one is ever printed, the run never has
\* a divider for that channel (no default is substituted), never gets past
\* the channel and never ends normally; when it reaches the channel it ends
\* with the KeyError of the lookup of line 44.
C3_MissingDividerFails ==
    \A ch \in 0..(NumChannels - 1) :
        ( /\ ("clkout" \o ToString(ch) \o "_en") \in DOMAIN params
          /\ params["clkout" \o ToString(ch) \o "_en"].n # 0
          /\ ("odiv" \o ToString(ch) \o "_sel") \notin DOMAIN params )
        => /\ \A k \in 1..Len(out) : out[k].ch < ch
           /\ i <= ch
           /\ ~ (i = ch /\ pc \in {"freq", "phase"})
           /\ pc = "exited" => exc.type # "none"
           /\ (pc = "exited" /\ i = ch /\ exc.line >= 44)
                 => exc = [type |-> "KeyError", line |-> 44]

\* Channel 3 is enabled without odiv3_sel and channel 4 is enabled and
\* complete: the run ended at the lookup for channel 3 with only the two
\* lines of the feedback report printed.
C3_Witness ==
    /\ pc = "exited"
    /\ exc = [type |-> "KeyError", line |-> 44]
    /\ i = 3
    /\ {"clkout4_en", "odiv4_sel", "clkout4_pe_coarse"} \subseteq DOMAIN params
    /\ Len(out) = 2

\* C2 as claimed: the report lines are in ascending channel order, and a
\* channel the loop has reached when the run ends has report lines iff its
\* enable key is present with a truthy value.
C2_EnabledIffReported ==
    /\ \A a, b \in 1..Len(out) : a < b => out[a].ch <= out[b].ch
    /\ \A ch \in 0..(NumChannels - 1) :
          ( /\ pc = "exited"
            /\ exc.type = "none" \/ (exc.line >= 44 /\ i >= ch) )
          => ( (\E k \in 1..Len(out) : out[k].ch = ch)
               <=> ( /\ ("clkout" \o ToString(ch) \o "_en") \in DOMAIN params
                     /\ params["clkout" \o ToString(ch) \o "_en"].n # 0 ) )

\* C2, amended: the report lines are in ascending channel order; a channel
\* has report lines only if its enable key is present with a truthy value
\* and its odiv{i}_sel is present; and a channel the loop has reached when
\* the run ends has report lines iff both hold.
C2_EnabledWithDividerIffReported ==
    LET reported(ch) == \E k \in 1..Len(out) : out[k].ch = ch
        enabled(ch) ==
            /\ ("clkout" \o ToString(ch) \o "_en") \in DOMAIN params
            /\ params["clkout" \o ToString(ch) \o "_en"].n # 0
        divided(ch) == ("odiv" \o ToString(ch) \o "_sel") \in DOMAIN params
    IN  /\ \A a, b \in 1..Len(out) : a < b => out[a].ch <= out[b].ch
        /\ \A ch \in 0..(NumChannels - 1) :
              /\ reported(ch) => enabled(ch) /\ divided(ch)
              /\ ( /\ pc = "exited"
                   /\ exc.type = "none" \/ (exc.line >= 44 /\ i >= ch) )
                 => (reported(ch) <=> (enabled(ch) /\ divided(ch)))

\* The file sets channel 4 before channel 3, channel 4 with the integer 1 as
\* its enable value and channel 3 with "TRUE": the run ended normally with
\* the three lines of channel 3 followed by the three lines of channel 4.
C2_Witness ==
    /\ pc = "exited"
    /\ exc.type = "none"
    /\ Len(out) = 8
    /\ \A k \in 3..5 : out[k].ch = 3
    /\ \A k \in 6..8 : out[k].ch = 4
    /\ params["clkout4_en"] = IntValue(1)
    /\ params["clkout3_en"] = BoolValue(TRUE)

\* C4 as claimed, for the runs whose extraction pass ended: a run ends with
\* status 0 after the channel loop, or with the fatal exit when fclkin is
\* absent, or with the KeyError of the lookup of odiv{i}_sel, and in no other
\* way.
C4_OnlyTwoEndings ==
    (pc = "exited" /\ exc.type # "ValueError") =>
        \/ exc.type = "none" /\ code = 0 /\ i = NumChannels
        \/ /\ exc.type = "SystemExit"
           /\ code # 0
           /\ "fclkin" \notin DOMAIN params
        \/ exc = [type |-> "KeyError", line |-> 44]

\* C10 as claimed: when the run has ended, every channel whose header line
\* was printed has its frequency line and its phase line printed too.
C10_ReportIsAllOrNothing ==
    pc = "exited" =>
        \A ch \in 0..(NumChannels - 1) :
            (\E k \in 1..Len(out) : out[k] = Report("Output", ch, Zero))
            => /\ \E k \in 1..Len(out) : out[k].kind = "Freq:" /\ out[k].ch = ch
               /\ \E k \in 1..Len(out) : out[k].kind = "Phase:" /\ out[k].ch = ch

=============================================================================
